---------------------------- MODULE Spec2Model ----------------------------
(***************************************************************************)
(* A model of the youtube-moderation application:                          *)
(*   - findTimestampsForPhrase / levenshteinDistance (the alignment of a   *)
(*     flagged phrase onto the timestamped words of the transcript),       *)
(*   - the render of the transcription panel of Home, which calls it,      *)
(*   - the POST handler of /api/transcribe with ensureYtDlpReady,          *)
(*     downloadYouTubeAudio, transcribeAudioFile, getModerationResults     *)
(*     and cleanupTempFile.                                                *)
(* A JavaScript string is modelled as a sequence of one-character strings. *)
(***************************************************************************)
EXTENDS Integers, Sequences, FiniteSets, TLC

VARIABLES
    phrase,        \* findTimestampsForPhrase: the phrase argument
    words,         \* findTimestampsForPhrase: the words argument
    timestamps     \* its return value, "pending" before the call

locateVars == <<phrase, words, timestamps>>

VARIABLES
    isYtDlpGlobalReady,  \* the module-level flag of transcriptionUtils
    versionProbes,       \* calls of ytDlpWrapInstance.getVersion() so far
    binaryDownloads,     \* calls of YTDlpWrap.downloadFromGithub() so far
    binaryPathSets,      \* calls of ytDlpWrapInstance.setBinaryPath() so far
    tempDir,             \* temp/<uuid>.mp3: "absent", "empty", "partial" or "complete"
    publicDir,           \* the uuids with a copy in public/audio
    pc,                  \* per request: the await at which POST is suspended
    tempAudioFilePath,   \* per request: the local variable of POST
    transcriptText,      \* per request: the local variable of POST
    response,            \* per request: the NextResponse returned
    cleanupCalled,       \* per request: cleanupTempFile has been called
    cleanupLog,          \* per request: what cleanupTempFile wrote to the console
    writeStream,         \* per request: the fs.WriteStream of the download
    stream,              \* per request: the yt-dlp execStream
    promise,             \* per request: the promise of downloadYouTubeAudio
    youtubeUrl,          \* per request: the youtubeUrl of the request body
    aborted              \* per request: request.signal.aborted

pipelineVars ==
    <<isYtDlpGlobalReady, versionProbes, binaryDownloads, binaryPathSets,
      tempDir, publicDir, pc, tempAudioFilePath, transcriptText, response,
      cleanupCalled, cleanupLog, writeStream, stream, promise, youtubeUrl,
      aborted>>

VARIABLES
    transcript,   \* channels[0].alternatives[0].transcript, as Home reads it
    sections,     \* detailed_analysis.inappropriate_sections
    analysis,     \* the entries rendered under "Detailed Analysis"
    parts,        \* transcript.split(pattern)
    index,        \* how many elements of parts the map callback has rendered
    spans,        \* the highlighted spans rendered so far
    renderPc      \* where the render of Home stands

renderVars == <<transcript, sections, analysis, parts, index, spans, renderPc>>

-----------------------------------------------------------------------------
(* Bounds of the model.                                                    *)

\* longest timeline (number of transcribed words) explored
MaxWords == 3

\* largest number of space-separated raw words in an explored phrase
MaxPhraseWords == 2

-----------------------------------------------------------------------------
(* JavaScript string primitives used by the source.                        *)

Min2(a, b) == IF a <= b THEN a ELSE b

UpperChars == <<"A","B","C","D","E","F","G","H","I","J","K","L","M",
                "N","O","P","Q","R","S","T","U","V","W","X","Y","Z">>

LowerChars == <<"a","b","c","d","e","f","g","h","i","j","k","l","m",
                "n","o","p","q","r","s","t","u","v","w","x","y","z">>

\* String.prototype.toLowerCase on one character
LowerChar(c) ==
    IF \E k \in 1..26 : UpperChars[k] = c
    THEN LowerChars[CHOOSE k \in 1..26 : UpperChars[k] = c]
    ELSE c

\* String.prototype.toLowerCase
toLowerCase(s) == [k \in 1..Len(s) |-> LowerChar(s[k])]

\* the character class [.,?!;:'"] of both replace calls
PunctuationChars == {".", ",", "?", "!", ";", ":", "'", "\""}

\* s.replace(/[.,?!;:'"]/g, ' ')  (the phrase: punctuation becomes a space)
replacePunctuationWithSpace(s) ==
    [k \in 1..Len(s) |-> IF s[k] \in PunctuationChars THEN " " ELSE s[k]]

\* s.replace(/[.,?!;:'"]/g, '')  (a transcript word: punctuation is deleted)
removePunctuation(s) == SelectSeq(s, LAMBDA c : c \notin PunctuationChars)

\* s.replace(/\s+/g, ' ')
RECURSIVE collapseWhitespace(_)
collapseWhitespace(s) ==
    IF Len(s) <= 1 THEN s
    ELSE IF s[1] = " " /\ s[2] = " " THEN collapseWhitespace(Tail(s))
    ELSE <<s[1]>> \o collapseWhitespace(Tail(s))

\* String.prototype.trim
RECURSIVE trim(_)
trim(s) ==
    IF Len(s) = 0 THEN s
    ELSE IF s[1] = " " THEN trim(Tail(s))
    ELSE IF s[Len(s)] = " " THEN trim(SubSeq(s, 1, Len(s) - 1))
    ELSE s

\* s.split(' '): the pieces between single spaces; "" splits into [""]
RECURSIVE split(_)
split(s) ==
    IF \A k \in 1..Len(s) : s[k] # " " THEN <<s>>
    ELSE LET p == CHOOSE k \in 1..Len(s) :
                      s[k] = " " /\ \A m \in 1..(k - 1) : s[m] # " "
         IN  <<SubSeq(s, 1, p - 1)>> \o split(SubSeq(s, p + 1, Len(s)))

\* String.prototype.includes: t occurs in s as a contiguous substring
includes(s, t) ==
    \E k \in 0..(Len(s) - Len(t)) : SubSeq(s, k + 1, k + Len(t)) = t

-----------------------------------------------------------------------------
(* levenshteinDistance: the dynamic-programming matrix, row by row.        *)

Min3(a, b, c) == Min2(a, Min2(b, c))

\* row holds matrix[i][0 .. Len(row)-1]; prev holds matrix[i-1][0 .. b.length]
RECURSIVE levFillRow(_, _, _, _, _)
levFillRow(a, b, i, prev, row) ==
    IF Len(row) = Len(b) + 1 THEN row
    ELSE LET j    == Len(row)
             cost == IF a[i] = b[j] THEN 0 ELSE 1
         IN  levFillRow(a, b, i, prev,
                 Append(row, Min3(prev[j + 1] + 1, row[j] + 1, prev[j] + cost)))

RECURSIVE levRows(_, _, _, _)
levRows(a, b, i, prev) ==
    IF i > Len(a) THEN prev
    ELSE levRows(a, b, i + 1, levFillRow(a, b, i, prev, <<i>>))

levenshteinDistance(a, b) ==
    IF Len(a) = 0 THEN Len(b)
    ELSE IF Len(b) = 0 THEN Len(a)
    ELSE levRows(a, b, 1, [j \in 1..(Len(b) + 1) |-> j - 1])[Len(b) + 1]

-----------------------------------------------------------------------------
(* findTimestampsForPhrase.  Indices i, j and matchCount are 0-based as in *)
(* the source; sequences are 1-based, hence the "+ 1" at every access.     *)

\* the phrase prepared for matching
normalizedPhraseOf(p) ==
    trim(collapseWhitespace(replacePunctuationWithSpace(toLowerCase(p))))

phraseWordsOf(p) == split(normalizedPhraseOf(p))

\* the "normalized" field added to every transcript word
normalizedOf(w) == removePunctuation(toLowerCase(w.word))

normalizedWordsOf(ws) == [k \in 1..Len(ws) |-> normalizedOf(ws[k])]

\* wordMatch with the edit-distance rule left out
wordMatch_noEditDistance(transcriptWord, phraseWord) ==
    IF transcriptWord = phraseWord THEN "exact"
    ELSE IF \/ includes(transcriptWord, phraseWord)
            \/ includes(phraseWord, transcriptWord)
         THEN "fuzzy"
         ELSE "none"

\* the per-word test of the inner loop: "exact", "fuzzy" or "none"
wordMatch(transcriptWord, phraseWord) ==
    IF transcriptWord = phraseWord THEN "exact"
    ELSE IF \/ includes(transcriptWord, phraseWord)
            \/ includes(phraseWord, transcriptWord)
            \/ levenshteinDistance(transcriptWord, phraseWord)
                   <= Min2(2, Len(phraseWord) \div 3)
         THEN "fuzzy"
         ELSE "none"

\* the inner loop without its break: a word that matches nothing is
\* skipped and the words after it are still counted
RECURSIVE matchWindow_noBreak(_, _, _, _, _, _)
matchWindow_noBreak(nw, pw, i, j, matchCount, fuzzyMatched) ==
    LET out == [matchCount |-> matchCount, fuzzyMatched |-> fuzzyMatched]
    IN  IF j >= Len(pw) THEN out
        ELSE IF i + j >= Len(nw) THEN out
        ELSE LET m == wordMatch(nw[i + j + 1], pw[j + 1])
             IN  IF m = "exact"
                 THEN matchWindow_noBreak(nw, pw, i,
                                          j + 1, matchCount + 1, fuzzyMatched)
                 ELSE IF m = "fuzzy"
                 THEN matchWindow_noBreak(nw, pw, i,
                                          j + 1, matchCount + 1, TRUE)
                 ELSE matchWindow_noBreak(nw, pw, i,
                                          j + 1, matchCount, fuzzyMatched)

\* the inner loop over j of window i: the values of matchCount and
\* fuzzyMatched when the loop ends or breaks
RECURSIVE matchWindow(_, _, _, _, _, _)
matchWindow(normalizedWords, phraseWords, i, j, matchCount, fuzzyMatched) ==
    LET out == [matchCount |-> matchCount, fuzzyMatched |-> fuzzyMatched]
    IN  IF j >= Len(phraseWords) THEN out
        ELSE IF i + j >= Len(normalizedWords) THEN out
        ELSE LET m == wordMatch(normalizedWords[i + j + 1], phraseWords[j + 1])
             IN  IF m = "exact"
                 THEN matchWindow(normalizedWords, phraseWords, i, j + 1,
                                  matchCount + 1, fuzzyMatched)
                 ELSE IF m = "fuzzy"
                 THEN matchWindow(normalizedWords, phraseWords, i, j + 1,
                                  matchCount + 1, TRUE)
                 ELSE out

\* the threshold 0.8 * M applied to every window, fuzzy or not
meetsThreshold_alwaysFuzzy(matchCount, fuzzyMatched, M) ==
    10 * matchCount >= 8 * M

\* a threshold of 0.75 * M for the windows in which a fuzzy rule was used
meetsThreshold_threeQuarters(matchCount, fuzzyMatched, M) ==
    IF fuzzyMatched THEN 4 * matchCount >= 3 * M ELSE matchCount >= M

\* a threshold that accepts no window in which a fuzzy rule was used
meetsThreshold_exactOnly(matchCount, fuzzyMatched, M) ==
    ~fuzzyMatched /\ matchCount >= M

\* matchCount >= threshold, threshold = fuzzyMatched ? 0.8 * M : M
\* (0.8 * M compared as 10 * matchCount >= 8 * M)
meetsThreshold(matchCount, fuzzyMatched, M) ==
    IF fuzzyMatched THEN 10 * matchCount >= 8 * M ELSE matchCount >= M

\* the value returned for "no match": null
Null == [found |-> FALSE]

\* scanWindows with the loop bound "i < N - M": the last window is skipped
RECURSIVE scanWindows_skipLastWindow(_, _, _, _)
scanWindows_skipLastWindow(ws, normalizedWords, phraseWords, i) ==
    IF i >= Len(normalizedWords) - Len(phraseWords) THEN Null
    ELSE LET m == matchWindow(normalizedWords, phraseWords, i, 0, 0, FALSE)
         IN  IF meetsThreshold(m.matchCount, m.fuzzyMatched, Len(phraseWords))
             THEN [found        |-> TRUE,
                   start        |-> ws[i + 1].start,
                   end          |-> ws[i + m.matchCount].end,
                   window       |-> i,
                   matchCount   |-> m.matchCount,
                   fuzzyMatched |-> m.fuzzyMatched]
             ELSE scanWindows_skipLastWindow(ws, normalizedWords, phraseWords, i + 1)

\* scanWindows that keeps looking for an exact window and falls back to the
\* first fuzzy one ("best match" instead of "first match"); best is the
\* fuzzy window remembered so far
RECURSIVE scanBest(_, _, _, _, _)
scanBest(ws, normalizedWords, phraseWords, i, best) ==
    IF i > Len(normalizedWords) - Len(phraseWords) THEN best
    ELSE LET m == matchWindow(normalizedWords, phraseWords, i, 0, 0, FALSE)
             r == [found        |-> TRUE,
                   start        |-> ws[i + 1].start,
                   end          |-> ws[i + m.matchCount].end,
                   window       |-> i,
                   matchCount   |-> m.matchCount,
                   fuzzyMatched |-> m.fuzzyMatched]
         IN  IF ~meetsThreshold(m.matchCount, m.fuzzyMatched, Len(phraseWords))
             THEN scanBest(ws, normalizedWords, phraseWords, i + 1, best)
             ELSE IF ~m.fuzzyMatched THEN r
             ELSE scanBest(ws, normalizedWords, phraseWords, i + 1,
                           IF best = Null THEN r ELSE best)

scanWindows_bestMatch(ws, normalizedWords, phraseWords, i) ==
    scanBest(ws, normalizedWords, phraseWords, i, Null)

\* scanWindows that answers with the first token when no window is accepted
RECURSIVE scanWindows_fallbackToStart(_, _, _, _)
scanWindows_fallbackToStart(ws, normalizedWords, phraseWords, i) ==
    IF i > Len(normalizedWords) - Len(phraseWords)
    THEN [found        |-> TRUE,
          start        |-> ws[1].start,
          end          |-> ws[1].end,
          window       |-> 0,
          matchCount   |-> 1,
          fuzzyMatched |-> TRUE]
    ELSE LET m == matchWindow(normalizedWords, phraseWords, i, 0, 0, FALSE)
         IN  IF meetsThreshold(m.matchCount, m.fuzzyMatched, Len(phraseWords))
             THEN [found        |-> TRUE,
                   start        |-> ws[i + 1].start,
                   end          |-> ws[i + m.matchCount].end,
                   window       |-> i,
                   matchCount   |-> m.matchCount,
                   fuzzyMatched |-> m.fuzzyMatched]
             ELSE scanWindows_fallbackToStart(ws, normalizedWords,
                                              phraseWords, i + 1)

\* scanWindows that returns the end of the window as start and its start as
\* end
RECURSIVE scanWindows_swappedBounds(_, _, _, _)
scanWindows_swappedBounds(ws, normalizedWords, phraseWords, i) ==
    IF i > Len(normalizedWords) - Len(phraseWords) THEN Null
    ELSE LET m == matchWindow(normalizedWords, phraseWords, i, 0, 0, FALSE)
         IN  IF meetsThreshold(m.matchCount, m.fuzzyMatched, Len(phraseWords))
             THEN [found        |-> TRUE,
                   start        |-> ws[i + m.matchCount].end,
                   end          |-> ws[i + 1].start,
                   window       |-> i,
                   matchCount   |-> m.matchCount,
                   fuzzyMatched |-> m.fuzzyMatched]
             ELSE scanWindows_swappedBounds(ws, normalizedWords,
                                            phraseWords, i + 1)

\* scanWindows that returns the end of the window's last token, matched or
\* not
RECURSIVE scanWindows_endOfWindow(_, _, _, _)
scanWindows_endOfWindow(ws, normalizedWords, phraseWords, i) ==
    IF i > Len(normalizedWords) - Len(phraseWords) THEN Null
    ELSE LET m == matchWindow(normalizedWords, phraseWords, i, 0, 0, FALSE)
         IN  IF meetsThreshold(m.matchCount, m.fuzzyMatched, Len(phraseWords))
             THEN [found        |-> TRUE,
                   start        |-> ws[i + 1].start,
                   end          |-> ws[i + Len(phraseWords)].end,
                   window       |-> i,
                   matchCount   |-> m.matchCount,
                   fuzzyMatched |-> m.fuzzyMatched]
             ELSE scanWindows_endOfWindow(ws, normalizedWords,
                                          phraseWords, i + 1)

\* the outer loop over i.  The returned record carries, besides start and
\* end, the loop's i, matchCount and fuzzyMatched at the return statement.
RECURSIVE scanWindows(_, _, _, _)
scanWindows(ws, normalizedWords, phraseWords, i) ==
    IF i > Len(normalizedWords) - Len(phraseWords) THEN Null
    ELSE LET m == matchWindow(normalizedWords, phraseWords, i, 0, 0, FALSE)
         IN  IF meetsThreshold(m.matchCount, m.fuzzyMatched, Len(phraseWords))
             THEN [found        |-> TRUE,
                   start        |-> ws[i + 1].start,
                   end          |-> ws[i + m.matchCount].end,
                   window       |-> i,
                   matchCount   |-> m.matchCount,
                   fuzzyMatched |-> m.fuzzyMatched]
             ELSE scanWindows(ws, normalizedWords, phraseWords, i + 1)

\* the word field of a token that has none (DeepgramWord.word is optional)
Missing == <<"undefined">>

\* w.word.toLowerCase() on a token without word: the call ends in a TypeError
Thrown == [found |-> FALSE, thrown |-> "TypeError"]

\* findTimestampsForPhrase answering an empty words array with a span at 0
findTimestampsForPhrase_defaultSpan(p, ws) ==
    IF Len(ws) = 0
    THEN [found |-> TRUE, start |-> 0, end |-> 0, window |-> 0,
          matchCount |-> 0, fuzzyMatched |-> FALSE]
    ELSE LET phraseWords == phraseWordsOf(p)
         IN  IF Len(phraseWords) = 0 THEN Null
             ELSE IF \E k \in DOMAIN ws : ws[k].word = Missing THEN Thrown
             ELSE scanWindows(ws, normalizedWordsOf(ws), phraseWords, 0)

findTimestampsForPhrase(p, ws) ==
    IF Len(ws) = 0 THEN Null
    ELSE LET phraseWords == phraseWordsOf(p)
         IN  IF Len(phraseWords) = 0 THEN Null
             ELSE IF \E k \in DOMAIN ws : ws[k].word = Missing THEN Thrown
             ELSE scanWindows(ws, normalizedWordsOf(ws), phraseWords, 0)

-----------------------------------------------------------------------------
(* The inputs explored: timelines over TokenWords, phrases over RawWords.  *)

\* the "word" fields a transcript may carry
TokenWords ==
    { <<"t","h","e">>, <<"q","u","i","c","k">>, <<"q","u","i","k">>,
      <<"F","o","x",".">>, <<"d","o","n","'","t">> }

\* the raw words a phrase is made of (joined by single spaces)
RawWords ==
    { <<"q","u","i","k">>, <<"f","o","x">>, <<"d","o","n","'","t">>, <<".">> }

\* word k of a timeline: Deepgram words follow one another in time
TranscriptionWord(w, k) == [word |-> w, start |-> 2 * (k - 1), end |-> 2 * k - 1]

Timelines ==
    UNION { { [k \in 1..n |-> TranscriptionWord(f[k], k)] :
                f \in [1..n -> TokenWords] } : n \in 0..MaxWords }

\* Array.prototype.join(' ')
RECURSIVE join(_)
join(ws) ==
    IF Len(ws) = 0 THEN <<>>
    ELSE IF Len(ws) = 1 THEN ws[1]
    ELSE ws[1] \o <<" ">> \o join(Tail(ws))

Phrases ==
    UNION { { join(f) : f \in [1..n -> RawWords] } : n \in 0..MaxPhraseWords }

\* timestamps before findTimestampsForPhrase has been called
Pending == [pending |-> TRUE]

\* the timeline the/quick/brown/fox, its times in tenths of a second:
\* the 0.0-0.2, quick 0.2-0.6, brown 0.6-0.9, fox 0.9-1.2
ScenarioTimeline ==
    << [word |-> <<"t","h","e">>, start |-> 0, end |-> 2],
       [word |-> <<"q","u","i","c","k">>, start |-> 2, end |-> 6],
       [word |-> <<"b","r","o","w","n">>, start |-> 6, end |-> 9],
       [word |-> <<"f","o","x">>, start |-> 9, end |-> 12] >>

\* "quick brown", "quik brown" and "purple elephant"
ScenarioPhrases ==
    { <<"q","u","i","c","k"," ","b","r","o","w","n">>,
      <<"q","u","i","k"," ","b","r","o","w","n">>,
      <<"p","u","r","p","l","e"," ","e","l","e","p","h","a","n","t">> }

\* the number of words of the longest phrases searched in the long
\* timelines
MaxLongWords == 5

\* timelines of MaxLongWords + 1 tokens over "the" and "quick": two windows
\* for the longest phrases
LongTimelines ==
    { [k \in 1..(MaxLongWords + 1) |-> TranscriptionWord(f[k], k)] :
        f \in [1..(MaxLongWords + 1) ->
                  {<<"t","h","e">>, <<"q","u","i","c","k">>}] }

\* phrases of 4 to MaxLongWords words over "the" and "quik"
LongPhrases ==
    UNION { { join(f) : f \in [1..n -> {<<"t","h","e">>, <<"q","u","i","k">>}] } :
                n \in 4..MaxLongWords }

\* the word fields of the tokens Deepgram may deliver: absent, empty, a word
ProviderWords == { Missing, << >>, <<"q","u","i","c","k">> }

ProviderTimelines ==
    UNION { { [k \in 1..n |-> TranscriptionWord(f[k], k)] :
                f \in [1..n -> ProviderWords] } : n \in 0..MaxWords }

ProviderPhrases ==
    { << >>, <<"q","u","i","c","k">>, <<"q","u","i","k">> }

-----------------------------------------------------------------------------
(* The /api/transcribe route.  Every action is one turn of the event loop: *)
(* the resumption of a request at an await (or a stream event) together    *)
(* with the synchronous code and microtasks that follow it, up to the next *)
(* await.  The outcome of every provider or file-system call is chosen by  *)
(* the environment.                                                        *)

\* the requests served concurrently
Requests == {"r1", "r2"}

\* the values randomUUID() may return
UUIDs == {"u1", "u2"}

\* let tempAudioFilePath = ''
NoPath == ""

\* no response returned yet
NoResponse == [status |-> 0]

\* an Error: the fixed text its message starts with and the message of the
\* underlying error interpolated into it ("" when there is none)
Err(prefix, cause) == [prefix |-> prefix, cause |-> cause]

\* NextResponse.json({ error: error.message }, { status: 500 })
ErrorResponse(e) == [status |-> 500, error |-> e]

\* NextResponse.json({ error: 'YouTube URL is required' }, { status: 400 })
BadRequest == [status |-> 400, error |-> Err("YouTube URL is required", "")]

\* NextResponse.json({ transcription, moderationResults, audioUrl })
OkResponse(r, moderationData) ==
    [status            |-> 200,
     transcription     |-> "channels",
     moderationResults |-> moderationData,
     audioUrl          |-> tempAudioFilePath[r]]

InitPipeline ==
    /\ isYtDlpGlobalReady = FALSE
    /\ versionProbes = 0
    /\ binaryDownloads = 0
    /\ binaryPathSets = 0
    /\ tempDir = [u \in UUIDs |-> "absent"]
    /\ publicDir = {}
    /\ pc = [r \in Requests |-> "start"]
    /\ tempAudioFilePath = [r \in Requests |-> NoPath]
    /\ transcriptText = [r \in Requests |-> ""]
    /\ response = [r \in Requests |-> NoResponse]
    /\ cleanupCalled = [r \in Requests |-> FALSE]
    /\ cleanupLog = [r \in Requests |-> ""]
    /\ writeStream = [r \in Requests |-> "none"]
    /\ stream = [r \in Requests |-> "none"]
    /\ promise = [r \in Requests |-> "none"]
    /\ youtubeUrl = [r \in Requests |-> ""]
    /\ aborted = [r \in Requests |-> FALSE]

\* cleanupTempFile(filePath), up to its await: existsSync, then unlink
cleanupTempFile(r) ==
    /\ cleanupCalled' = [cleanupCalled EXCEPT ![r] = TRUE]
    /\ IF tempDir[tempAudioFilePath[r]] # "absent"
       THEN pc' = [pc EXCEPT ![r] = "awaitUnlink"]
       ELSE pc' = [pc EXCEPT ![r] = "done"]

\* POST with the cleanup at the end of the try block instead of in finally:
\* it runs only when the handler returns its results
Finally_onlyOnSuccess(r) ==
    IF tempAudioFilePath[r] # NoPath /\ response'[r].status = 200
    THEN cleanupTempFile(r)
    ELSE /\ pc' = [pc EXCEPT ![r] = "done"]
         /\ UNCHANGED cleanupCalled

\* the finally block of POST
Finally(r) ==
    IF tempAudioFilePath[r] # NoPath
    THEN cleanupTempFile(r)
    ELSE /\ pc' = [pc EXCEPT ![r] = "done"]
         /\ UNCHANGED cleanupCalled

\* a return statement of the try block, or the catch block, then finally
Return(r, resp) ==
    /\ response' = [response EXCEPT ![r] = resp]
    /\ Finally(r)

\* POST is called: ensureYtDlpReady up to its first await
Start(r) ==
    /\ pc[r] = "start"
    /\ IF isYtDlpGlobalReady
       THEN /\ pc' = [pc EXCEPT ![r] = "awaitDirs"]
            /\ UNCHANGED versionProbes
       ELSE /\ pc' = [pc EXCEPT ![r] = "awaitVersion"]
            /\ versionProbes' = versionProbes + 1
    /\ UNCHANGED <<locateVars, renderVars, aborted, youtubeUrl, cleanupLog,
                   isYtDlpGlobalReady, binaryDownloads, binaryPathSets,
                   tempDir, publicDir, tempAudioFilePath, transcriptText,
                   response, cleanupCalled, writeStream, stream, promise>>

\* await ytDlpWrapInstance.getVersion() resolves
VersionFound(r) ==
    /\ pc[r] = "awaitVersion"
    /\ isYtDlpGlobalReady' = TRUE
    /\ pc' = [pc EXCEPT ![r] = "awaitDirs"]
    /\ UNCHANGED <<locateVars, renderVars, aborted, youtubeUrl, cleanupLog,
                   versionProbes, binaryDownloads, binaryPathSets, tempDir,
                   publicDir, tempAudioFilePath, transcriptText, response,
                   cleanupCalled, writeStream, stream, promise>>

\* await ytDlpWrapInstance.getVersion() rejects: download the binary
VersionNotFound(r) ==
    /\ pc[r] = "awaitVersion"
    /\ binaryDownloads' = binaryDownloads + 1
    /\ pc' = [pc EXCEPT ![r] = "awaitBinary"]
    /\ UNCHANGED <<locateVars, renderVars, aborted, youtubeUrl, cleanupLog,
                   isYtDlpGlobalReady, versionProbes, binaryPathSets,
                   tempDir, publicDir, tempAudioFilePath, transcriptText,
                   response, cleanupCalled, writeStream, stream, promise>>

\* await YTDlpWrap.downloadFromGithub(binaryFilePath) resolves
BinaryDownloaded(r) ==
    /\ pc[r] = "awaitBinary"
    /\ binaryPathSets' = binaryPathSets + 1
    /\ isYtDlpGlobalReady' = TRUE
    /\ pc' = [pc EXCEPT ![r] = "awaitDirs"]
    /\ UNCHANGED <<locateVars, renderVars, aborted, youtubeUrl, cleanupLog,
                   versionProbes, binaryDownloads, tempDir, publicDir,
                   tempAudioFilePath, transcriptText, response,
                   cleanupCalled, writeStream, stream, promise>>

\* ensureYtDlpReady setting the flag before it throws: a failed
\* initialization is not tried again
BinaryDownloadFailed_marksReady(r) ==
    /\ pc[r] = "awaitBinary"
    /\ isYtDlpGlobalReady' = TRUE
    /\ Return(r, ErrorResponse(
                    Err("Failed to initialize video downloader component.", "")))
    /\ UNCHANGED <<locateVars, renderVars, aborted, youtubeUrl, cleanupLog,
                   versionProbes, binaryDownloads,
                   binaryPathSets, tempDir, publicDir, tempAudioFilePath,
                   transcriptText, writeStream, stream, promise>>

\* mkdir or downloadFromGithub rejects: ensureYtDlpReady throws
BinaryDownloadFailed(r) ==
    /\ pc[r] = "awaitBinary"
    /\ Return(r, ErrorResponse(
                    Err("Failed to initialize video downloader component.", "")))
    /\ UNCHANGED <<locateVars, renderVars, aborted, youtubeUrl, cleanupLog,
                   isYtDlpGlobalReady, versionProbes, binaryDownloads,
                   binaryPathSets, tempDir, publicDir, tempAudioFilePath,
                   transcriptText, writeStream, stream, promise>>

\* await createTranscriptionDirectoriesIfNeeded() resolves
DirectoriesReady(r) ==
    /\ pc[r] = "awaitDirs"
    /\ pc' = [pc EXCEPT ![r] = "awaitBody"]
    /\ UNCHANGED <<locateVars, renderVars, aborted, youtubeUrl, cleanupLog,
                   isYtDlpGlobalReady, versionProbes, binaryDownloads,
                   binaryPathSets, tempDir, publicDir, tempAudioFilePath,
                   transcriptText, response, cleanupCalled, writeStream,
                   stream, promise>>

\* a mkdir of createTranscriptionDirectoriesIfNeeded rejects
DirectoriesFailed(r) ==
    /\ pc[r] = "awaitDirs"
    /\ Return(r, ErrorResponse(Err("", "mkdir error")))
    /\ UNCHANGED <<locateVars, renderVars, aborted, youtubeUrl, cleanupLog,
                   isYtDlpGlobalReady, versionProbes, binaryDownloads,
                   binaryPathSets, tempDir, publicDir, tempAudioFilePath,
                   transcriptText, writeStream, stream, promise>>

\* await request.json() rejects: the body is not JSON
BodyMalformed(r) ==
    /\ pc[r] = "awaitBody"
    /\ Return(r, ErrorResponse(Err("", "json error")))
    /\ UNCHANGED <<locateVars, renderVars, aborted, youtubeUrl, cleanupLog,
                   isYtDlpGlobalReady, versionProbes, binaryDownloads,
                   binaryPathSets, tempDir, publicDir, tempAudioFilePath,
                   transcriptText, writeStream, stream, promise>>

\* await request.json() resolves without youtubeUrl
UrlMissing(r) ==
    /\ pc[r] = "awaitBody"
    /\ Return(r, BadRequest)
    /\ UNCHANGED <<locateVars, renderVars, aborted, youtubeUrl, cleanupLog,
                   isYtDlpGlobalReady, versionProbes, binaryDownloads,
                   binaryPathSets, tempDir, publicDir, tempAudioFilePath,
                   transcriptText, writeStream, stream, promise>>

\* POST naming the temporary file without a collision-free identifier: the
\* name may be one that another request is using
UrlGiven_sharedName(r) ==
    /\ pc[r] = "awaitBody"
    /\ \E u \in UUIDs :
          tempAudioFilePath' = [tempAudioFilePath EXCEPT ![r] = u]
    /\ \E url \in {"valid", "invalid"} :
          youtubeUrl' = [youtubeUrl EXCEPT ![r] = url]
    /\ pc' = [pc EXCEPT ![r] = "awaitMkdir"]
    /\ UNCHANGED <<locateVars, renderVars, aborted, cleanupLog,
                   isYtDlpGlobalReady, versionProbes, binaryDownloads,
                   binaryPathSets, tempDir, publicDir, transcriptText,
                   response, cleanupCalled, writeStream, stream, promise>>

\* await request.json() resolves with a youtubeUrl: randomUUID(), the paths,
\* then downloadYouTubeAudio up to its await mkdir
UrlGiven(r) ==
    /\ pc[r] = "awaitBody"
    /\ \E u \in UUIDs :
          /\ \A q \in Requests : tempAudioFilePath[q] # u
          /\ tempAudioFilePath' = [tempAudioFilePath EXCEPT ![r] = u]
    /\ \E url \in {"valid", "invalid"} :
          youtubeUrl' = [youtubeUrl EXCEPT ![r] = url]
    /\ pc' = [pc EXCEPT ![r] = "awaitMkdir"]
    /\ UNCHANGED <<locateVars, renderVars, aborted, cleanupLog,
                   isYtDlpGlobalReady, versionProbes, binaryDownloads,
                   binaryPathSets, tempDir, publicDir, transcriptText,
                   response, cleanupCalled, writeStream, stream, promise>>

\* the mkdir of downloadYouTubeAudio rejects: the error reaches catch as is
DownloadDirFailed(r) ==
    /\ pc[r] = "awaitMkdir"
    /\ Return(r, ErrorResponse(Err("", "mkdir error")))
    /\ UNCHANGED <<locateVars, renderVars, aborted, youtubeUrl, cleanupLog,
                   isYtDlpGlobalReady, versionProbes, binaryDownloads,
                   binaryPathSets, tempDir, publicDir, tempAudioFilePath,
                   transcriptText, writeStream, stream, promise>>

\* the mkdir resolves: fs.createWriteStream (its open is still pending),
\* execStream, the three handlers, stream.pipe(writeStream)
DownloadStarted(r) ==
    /\ pc[r] = "awaitMkdir"
    /\ writeStream' = [writeStream EXCEPT ![r] = "opening"]
    /\ stream' = [stream EXCEPT ![r] = "flowing"]
    /\ promise' = [promise EXCEPT ![r] = "pending"]
    /\ pc' = [pc EXCEPT ![r] = "awaitDownload"]
    /\ UNCHANGED <<locateVars, renderVars, aborted, youtubeUrl, cleanupLog,
                   isYtDlpGlobalReady, versionProbes, binaryDownloads,
                   binaryPathSets, tempDir, publicDir, tempAudioFilePath,
                   transcriptText, response, cleanupCalled>>

\* reject(e) in a handler of downloadYouTubeAudio: the first settlement
\* resumes POST in its catch block, a later one is ignored
Reject(r, e) ==
    IF promise[r] = "pending"
    THEN /\ promise' = [promise EXCEPT ![r] = "rejected"]
         /\ Return(r, ErrorResponse(e))
    ELSE UNCHANGED <<promise, response, pc, cleanupCalled>>

\* stream.destroy() / writeStream.destroy()
destroyed(st) == IF st \in {"flowing", "ended"} THEN "destroyed" ELSE st

destroyedWrite(ws) ==
    IF ws = "opening" THEN "destroyedOpening"
    ELSE IF ws = "open" THEN "closed"
    ELSE ws

\* the open of the write stream completes: the file is created (flag 'w');
\* a stream destroyed meanwhile is closed right after its open
WriteStreamOpened(r) ==
    /\ writeStream[r] \in {"opening", "destroyedOpening"}
    /\ tempDir' = [tempDir EXCEPT ![tempAudioFilePath[r]] = "empty"]
    /\ writeStream' = [writeStream EXCEPT ![r] =
                          IF writeStream[r] = "opening" THEN "open" ELSE "closed"]
    /\ UNCHANGED <<locateVars, renderVars, aborted, youtubeUrl, cleanupLog,
                   isYtDlpGlobalReady, versionProbes, binaryDownloads,
                   binaryPathSets, publicDir, pc, tempAudioFilePath,
                   transcriptText, response, cleanupCalled, stream, promise>>

\* the open of the write stream fails: writeStream.on('error')
WriteStreamOpenFailed(r) ==
    /\ writeStream[r] \in {"opening", "destroyedOpening"}
    /\ writeStream' = [writeStream EXCEPT ![r] = "errored"]
    /\ stream' = [stream EXCEPT ![r] = destroyed(stream[r])]
    /\ Reject(r, Err("File write error", "open error"))
    /\ UNCHANGED <<locateVars, renderVars, aborted, youtubeUrl, cleanupLog,
                   isYtDlpGlobalReady, versionProbes, binaryDownloads,
                   binaryPathSets, tempDir, publicDir, tempAudioFilePath,
                   transcriptText>>

\* a chunk of audio is piped into the open write stream
StreamData(r) ==
    /\ stream[r] = "flowing"
    /\ youtubeUrl[r] = "valid"
    /\ writeStream[r] = "open"
    /\ tempDir[tempAudioFilePath[r]] = "empty"
    /\ tempDir' = [tempDir EXCEPT ![tempAudioFilePath[r]] = "partial"]
    /\ UNCHANGED <<locateVars, renderVars, aborted, youtubeUrl, cleanupLog,
                   isYtDlpGlobalReady, versionProbes, binaryDownloads,
                   binaryPathSets, publicDir, pc, tempAudioFilePath,
                   transcriptText, response, cleanupCalled, writeStream,
                   stream, promise>>

\* stream.on('error'): writeStream.destroy(), reject
StreamError(r) ==
    /\ stream[r] = "flowing"
    /\ stream' = [stream EXCEPT ![r] = "errored"]
    /\ writeStream' = [writeStream EXCEPT ![r] = destroyedWrite(writeStream[r])]
    /\ Reject(r, Err("Download failed", "yt-dlp error"))
    /\ UNCHANGED <<locateVars, renderVars, aborted, youtubeUrl, cleanupLog,
                   isYtDlpGlobalReady, versionProbes, binaryDownloads,
                   binaryPathSets, tempDir, publicDir, tempAudioFilePath,
                   transcriptText>>

\* a download that resolves its promise as soon as the yt-dlp stream has
\* ended, without waiting for 'finish' of the write stream and for the copy
StreamEnd_resolves(r) ==
    /\ stream[r] = "flowing"
    /\ youtubeUrl[r] = "valid"
    /\ promise[r] = "pending"
    /\ stream' = [stream EXCEPT ![r] = "ended"]
    /\ promise' = [promise EXCEPT ![r] = "resolved"]
    /\ pc' = [pc EXCEPT ![r] = "awaitTranscribe"]
    /\ UNCHANGED <<locateVars, renderVars, aborted, youtubeUrl, cleanupLog,
                   isYtDlpGlobalReady, versionProbes, binaryDownloads,
                   binaryPathSets, tempDir, publicDir, tempAudioFilePath,
                   transcriptText, response, cleanupCalled, writeStream>>

\* the yt-dlp stream ends: pipe calls writeStream.end()
StreamEnd(r) ==
    /\ stream[r] = "flowing"
    /\ youtubeUrl[r] = "valid"
    /\ stream' = [stream EXCEPT ![r] = "ended"]
    /\ UNCHANGED <<locateVars, renderVars, aborted, youtubeUrl, cleanupLog,
                   isYtDlpGlobalReady, versionProbes, binaryDownloads,
                   binaryPathSets, tempDir, publicDir, pc, tempAudioFilePath,
                   transcriptText, response, cleanupCalled, writeStream,
                   promise>>

\* a write-stream error handler that destroys the download stream and does
\* not reject: the promise of downloadYouTubeAudio is never settled
WriteFailed_noReject(r) ==
    /\ writeStream[r] = "open"
    /\ stream[r] \in {"flowing", "ended"}
    /\ writeStream' = [writeStream EXCEPT ![r] = "errored"]
    /\ stream' = [stream EXCEPT ![r] = destroyed(stream[r])]
    /\ UNCHANGED <<locateVars, renderVars, aborted, youtubeUrl, cleanupLog,
                   isYtDlpGlobalReady, versionProbes, binaryDownloads,
                   binaryPathSets, tempDir, publicDir, tempAudioFilePath,
                   transcriptText, promise, response, pc, cleanupCalled>>

\* a write to the file fails: writeStream.on('error'): stream.destroy(), reject
WriteFailed(r) ==
    /\ writeStream[r] = "open"
    /\ stream[r] \in {"flowing", "ended"}
    /\ writeStream' = [writeStream EXCEPT ![r] = "errored"]
    /\ stream' = [stream EXCEPT ![r] = destroyed(stream[r])]
    /\ Reject(r, Err("File write error", "write error"))
    /\ UNCHANGED <<locateVars, renderVars, aborted, youtubeUrl, cleanupLog,
                   isYtDlpGlobalReady, versionProbes, binaryDownloads,
                   binaryPathSets, tempDir, publicDir, tempAudioFilePath,
                   transcriptText>>

\* writeStream.on('finish'): everything is written; the copy begins
WriteStreamFinish(r) ==
    /\ writeStream[r] = "open"
    /\ stream[r] = "ended"
    /\ writeStream' = [writeStream EXCEPT ![r] = "finished"]
    /\ tempDir' = [tempDir EXCEPT ![tempAudioFilePath[r]] = "complete"]
    /\ UNCHANGED <<locateVars, renderVars, aborted, youtubeUrl, cleanupLog,
                   isYtDlpGlobalReady, versionProbes, binaryDownloads,
                   binaryPathSets, publicDir, pc, tempAudioFilePath,
                   transcriptText, response, cleanupCalled, stream, promise>>

\* mkdir, readFile and writeFile of the finish handler succeed: resolve();
\* POST goes on to transcribeAudioFile, which throws without an API key and
\* otherwise awaits deepgram.listen.prerecorded.transcribeFile
CopyDone(r) ==
    /\ writeStream[r] = "finished"
    /\ promise[r] = "pending"
    /\ publicDir' = publicDir \cup {tempAudioFilePath[r]}
    /\ promise' = [promise EXCEPT ![r] = "resolved"]
    /\ writeStream' = [writeStream EXCEPT ![r] = "closed"]
    /\ \E deepgramApiKey \in BOOLEAN :
          IF deepgramApiKey
          THEN /\ pc' = [pc EXCEPT ![r] = "awaitTranscribe"]
               /\ UNCHANGED <<response, cleanupCalled>>
          ELSE Return(r, ErrorResponse(
                            Err("Deepgram API key is not configured.", "")))
    /\ UNCHANGED <<locateVars, renderVars, aborted, youtubeUrl, cleanupLog,
                   isYtDlpGlobalReady, versionProbes, binaryDownloads,
                   binaryPathSets, tempDir, tempAudioFilePath,
                   transcriptText, stream>>

\* mkdir, readFile or writeFile of the finish handler rejects
CopyFailed(r) ==
    /\ writeStream[r] = "finished"
    /\ promise[r] = "pending"
    /\ writeStream' = [writeStream EXCEPT ![r] = "closed"]
    /\ Reject(r, Err("File copy/processing failed after download",
                     "copy error"))
    /\ UNCHANGED <<locateVars, renderVars, aborted, youtubeUrl, cleanupLog,
                   isYtDlpGlobalReady, versionProbes, binaryDownloads,
                   binaryPathSets, tempDir, publicDir, tempAudioFilePath,
                   transcriptText, stream>>

\* transcribeFile resolves with a result: transcriptText (with its default),
\* then getModerationResults up to its await
Transcribed(r) ==
    /\ pc[r] = "awaitTranscribe"
    /\ \E resultTranscript \in {"transcript", ""} :
          transcriptText' = [transcriptText EXCEPT ![r] =
              IF resultTranscript # "" THEN resultTranscript
              ELSE "No transcript was generated."]
    /\ pc' = [pc EXCEPT ![r] = "awaitModeration"]
    /\ UNCHANGED <<locateVars, renderVars, aborted, youtubeUrl, cleanupLog,
                   isYtDlpGlobalReady, versionProbes, binaryDownloads,
                   binaryPathSets, tempDir, publicDir, tempAudioFilePath,
                   response, cleanupCalled, writeStream, stream, promise>>

\* transcribeFile reports an error or rejects: rethrown as it is
TranscribeFailed(r) ==
    /\ pc[r] = "awaitTranscribe"
    /\ Return(r, ErrorResponse(Err("", "deepgram error")))
    /\ UNCHANGED <<locateVars, renderVars, aborted, youtubeUrl, cleanupLog,
                   isYtDlpGlobalReady, versionProbes, binaryDownloads,
                   binaryPathSets, tempDir, publicDir, tempAudioFilePath,
                   transcriptText, writeStream, stream, promise>>

\* getModerationResults resolves: the combined results are returned
Moderated(r) ==
    /\ pc[r] = "awaitModeration"
    /\ Return(r, OkResponse(r, "moderationData"))
    /\ UNCHANGED <<locateVars, renderVars, aborted, youtubeUrl, cleanupLog,
                   isYtDlpGlobalReady, versionProbes, binaryDownloads,
                   binaryPathSets, tempDir, publicDir, tempAudioFilePath,
                   transcriptText, writeStream, stream, promise>>

\* a call of getModerationResults (moderations.create, chat.completions.create,
\* JSON.parse) throws: nothing catches it before the catch block of POST
ModerationFailed(r) ==
    /\ pc[r] = "awaitModeration"
    /\ Return(r, ErrorResponse(Err("", "openai error")))
    /\ UNCHANGED <<locateVars, renderVars, aborted, youtubeUrl, cleanupLog,
                   isYtDlpGlobalReady, versionProbes, binaryDownloads,
                   binaryPathSets, tempDir, publicDir, tempAudioFilePath,
                   transcriptText, writeStream, stream, promise>>

\* await unlink(filePath) resolves: the file is gone; POST returns
Unlinked(r) ==
    /\ pc[r] = "awaitUnlink"
    /\ tempDir' = [tempDir EXCEPT ![tempAudioFilePath[r]] = "absent"]
    /\ pc' = [pc EXCEPT ![r] = "done"]
    /\ cleanupLog' = [cleanupLog EXCEPT ![r] = "Cleaned up temp file"]
    /\ UNCHANGED <<locateVars, renderVars, aborted, youtubeUrl,
                   isYtDlpGlobalReady, versionProbes, binaryDownloads,
                   binaryPathSets, publicDir, tempAudioFilePath,
                   transcriptText, response, cleanupCalled, writeStream,
                   stream, promise>>

\* cleanupTempFile without its try/catch: the rejection of unlink leaves the
\* finally block and replaces the response of POST
UnlinkFailed_propagates(r) ==
    /\ pc[r] = "awaitUnlink"
    /\ pc' = [pc EXCEPT ![r] = "done"]
    /\ response' = [response EXCEPT ![r] =
                        ErrorResponse(Err("", "unlink error"))]
    /\ cleanupLog' = [cleanupLog EXCEPT ![r] = "Failed to clean up temp file"]
    /\ UNCHANGED <<locateVars, renderVars, aborted, youtubeUrl,
                   isYtDlpGlobalReady, versionProbes, binaryDownloads,
                   binaryPathSets, tempDir, publicDir, tempAudioFilePath,
                   transcriptText, cleanupCalled, writeStream, stream,
                   promise>>

\* await unlink(filePath) rejects: logged, not rethrown; POST returns
UnlinkFailed(r) ==
    /\ pc[r] = "awaitUnlink"
    /\ pc' = [pc EXCEPT ![r] = "done"]
    /\ cleanupLog' = [cleanupLog EXCEPT ![r] = "Failed to clean up temp file"]
    /\ UNCHANGED <<locateVars, renderVars, aborted, youtubeUrl,
                   isYtDlpGlobalReady, versionProbes, binaryDownloads,
                   binaryPathSets, tempDir, publicDir, tempAudioFilePath,
                   transcriptText, response, cleanupCalled, writeStream,
                   stream, promise>>

\* a runtime that drops the handler of a request whose client went away:
\* nothing after the pending await runs, the finally block included
ClientAborted_dropsHandler(r) ==
    /\ pc[r] \notin {"start", "done"}
    /\ ~aborted[r]
    /\ aborted' = [aborted EXCEPT ![r] = TRUE]
    /\ pc' = [pc EXCEPT ![r] = "done"]
    /\ UNCHANGED <<locateVars, renderVars, youtubeUrl, cleanupLog,
                   isYtDlpGlobalReady, versionProbes, binaryDownloads,
                   binaryPathSets, tempDir, publicDir, tempAudioFilePath,
                   transcriptText, response, cleanupCalled, writeStream,
                   stream, promise>>

\* the client drops the connection while the request is in flight:
\* request.signal is aborted; POST registers no listener on it and passes it
\* to none of its calls, so the handler goes on as before
ClientAborted(r) ==
    /\ pc[r] \notin {"start", "done"}
    /\ ~aborted[r]
    /\ aborted' = [aborted EXCEPT ![r] = TRUE]
    /\ UNCHANGED <<locateVars, renderVars, youtubeUrl, cleanupLog,
                   isYtDlpGlobalReady, versionProbes, binaryDownloads,
                   binaryPathSets, tempDir, publicDir, pc, tempAudioFilePath,
                   transcriptText, response, cleanupCalled, writeStream,
                   stream, promise>>

-----------------------------------------------------------------------------
(* The render of Home (page.tsx): the "Detailed Analysis" list and the     *)
(* transcription with its highlighted phrases.                             *)

MaxSections == 2

\* words Deepgram returns for the rendered transcription
RenderWords == { <<"t","h","e">>, <<"q","u","i","c","k">>, <<"F","o","x",".">> }

RenderTimelines ==
    UNION { { [k \in 1..n |-> TranscriptionWord(f[k], k)] :
                f \in [1..n -> RenderWords] } : n \in 0..MaxWords }

\* texts the classification quotes in inappropriate_sections
SectionTexts ==
    { <<"q","u","i","c","k">>, <<"t","h","e"," ","q","u","i","c","k">>,
      <<"f","o","x">>, <<"t","h","e">> }

InappropriateSections ==
    UNION { [1..n -> [text : SectionTexts]] : n \in 0..MaxSections }

\* Deepgram's transcript of a timeline: its words separated by single spaces
transcriptOf(ws) == join([k \in DOMAIN ws |-> ws[k].word])

\* inappropriate_sections.map(section => section.text)
searchPhrasesOf(ss) == [k \in DOMAIN ss |-> ss[k].text]

\* Array.prototype.includes and Array.prototype.indexOf
arrayIncludes(a, x) == \E k \in DOMAIN a : a[k] = x

\* new RegExp(`(${escapedPhrases.join('|')})`, 'g') tried at position q of s:
\* every phrase is escaped, so an alternative matches its literal text, and
\* the leftmost alternative that matches is taken; the result is the
\* position after the match, 0 when no alternative matches
matchEnd(s, q, searchPhrases) ==
    LET hit(k) == /\ q + Len(searchPhrases[k]) - 1 <= Len(s)
                  /\ SubSeq(s, q, q + Len(searchPhrases[k]) - 1)
                        = searchPhrases[k]
    IN IF \E k \in DOMAIN searchPhrases : hit(k)
       THEN LET k == CHOOSE k \in DOMAIN searchPhrases :
                        hit(k) /\ \A m \in 1..(k - 1) : ~hit(m)
            IN q + Len(searchPhrases[k])
       ELSE 0

\* the loop of String.prototype.split for a pattern with one capture group:
\* p is where the current piece starts, q where the next match is tried
RECURSIVE splitFrom(_, _, _, _)
splitFrom(s, searchPhrases, p, q) ==
    IF q > Len(s) THEN << SubSeq(s, p, Len(s)) >>
    ELSE LET e == matchEnd(s, q, searchPhrases)
         IN IF e = 0 \/ e = p
            THEN splitFrom(s, searchPhrases, p, q + 1)
            ELSE << SubSeq(s, p, q - 1), SubSeq(s, q, e - 1) >>
                    \o splitFrom(s, searchPhrases, e, e)

\* transcript.split(pattern)
splitByPattern(s, searchPhrases) ==
    IF Len(s) = 0
    THEN IF matchEnd(s, 1, searchPhrases) # 0 THEN << >> ELSE << s >>
    ELSE splitFrom(s, searchPhrases, 1, 1)

\* no render has started
InitRenderIdle ==
    /\ transcript = << >>
    /\ sections = << >>
    /\ analysis = << >>
    /\ parts = << >>
    /\ index = 0
    /\ spans = << >>
    /\ renderPc = "idle"

\* Home is rendered with a transcription and its moderation results
InitRender ==
    /\ InitPipeline
    /\ phrase = << >>
    /\ timestamps = Pending
    /\ words \in RenderTimelines
    /\ transcript = transcriptOf(words)
    /\ sections \in InappropriateSections
    /\ analysis = << >>
    /\ parts = << >>
    /\ index = 0
    /\ spans = << >>
    /\ renderPc = "analysis"

\* inappropriate_sections.map((section, index) => ...): one entry per
\* section, showing its text, reason and severity
RenderAnalysis ==
    /\ renderPc = "analysis"
    /\ analysis' = [k \in DOMAIN sections |-> sections[k].text]
    /\ renderPc' = "transcription"
    /\ UNCHANGED <<locateVars, pipelineVars, transcript, sections, parts,
                   index, spans>>

\* searchPhrases.length = 0: the transcript is returned as it is
RenderTranscript ==
    /\ renderPc = "transcription"
    /\ Len(searchPhrasesOf(sections)) = 0
    /\ renderPc' = "done"
    /\ UNCHANGED <<locateVars, pipelineVars, transcript, sections, analysis,
                   parts, index, spans>>

\* searchPhrases.length > 0: the transcript is split at the phrases
SplitTranscript ==
    /\ renderPc = "transcription"
    /\ Len(searchPhrasesOf(sections)) > 0
    /\ parts' = splitByPattern(transcript, searchPhrasesOf(sections))
    /\ renderPc' = "parts"
    /\ UNCHANGED <<locateVars, pipelineVars, transcript, sections, analysis,
                   index, spans>>

\* a locator with memory: every call resumes the search behind the tokens
\* that earlier calls of the same render have claimed
RenderSearchPhrase_resumesSearch ==
    /\ renderPc = "parts"
    /\ index < Len(parts)
    /\ LET part == parts[index + 1]
           claimed == {spans[n].timestamps.window + spans[n].timestamps.matchCount :
                          n \in {n \in DOMAIN spans : spans[n].timestamps.found}}
           from == IF claimed = {} THEN 0
                   ELSE CHOOSE c \in claimed : \A d \in claimed : d <= c
       IN /\ arrayIncludes(searchPhrasesOf(sections), part)
          /\ spans' = Append(spans,
                 [text |-> part,
                  timestamps |->
                      findTimestampsForPhrase(part,
                          SubSeq(words, from + 1, Len(words)))])
    /\ index' = index + 1
    /\ UNCHANGED <<locateVars, pipelineVars, transcript, sections, analysis,
                   parts, renderPc>>

\* parts.map callback on a search phrase: the phrase is located in words and
\* rendered as a highlighted span, with its time when it was located
RenderSearchPhrase ==
    /\ renderPc = "parts"
    /\ index < Len(parts)
    /\ LET part == parts[index + 1]
       IN /\ arrayIncludes(searchPhrasesOf(sections), part)
          /\ spans' = Append(spans,
                 [text |-> part,
                  timestamps |-> findTimestampsForPhrase(part, words)])
    /\ index' = index + 1
    /\ UNCHANGED <<locateVars, pipelineVars, transcript, sections, analysis,
                   parts, renderPc>>

\* parts.map callback on any other part: a plain span
RenderPart ==
    /\ renderPc = "parts"
    /\ index < Len(parts)
    /\ ~arrayIncludes(searchPhrasesOf(sections), parts[index + 1])
    /\ index' = index + 1
    /\ UNCHANGED <<locateVars, pipelineVars, transcript, sections, analysis,
                   parts, spans, renderPc>>

\* parts.map has visited every part
RenderDone ==
    /\ renderPc = "parts"
    /\ index = Len(parts)
    /\ renderPc' = "done"
    /\ UNCHANGED <<locateVars, pipelineVars, transcript, sections, analysis,
                   parts, index, spans>>

vars == <<locateVars, pipelineVars, renderVars>>

Init ==
    /\ InitPipeline
    /\ InitRenderIdle
    /\ phrase = <<>>
    /\ words = <<>>
    /\ timestamps = Pending

Next ==
    \E r \in Requests :
        \/ Start(r)
        \/ VersionFound(r)
        \/ VersionNotFound(r)
        \/ BinaryDownloaded(r)
        \/ BinaryDownloadFailed(r)
        \/ DirectoriesReady(r)
        \/ DirectoriesFailed(r)
        \/ BodyMalformed(r)
        \/ UrlMissing(r)
        \/ UrlGiven(r)
        \/ DownloadDirFailed(r)
        \/ DownloadStarted(r)
        \/ WriteStreamOpened(r)
        \/ WriteStreamOpenFailed(r)
        \/ StreamData(r)
        \/ StreamError(r)
        \/ StreamEnd(r)
        \/ WriteFailed(r)
        \/ WriteStreamFinish(r)
        \/ CopyDone(r)
        \/ CopyFailed(r)
        \/ Transcribed(r)
        \/ TranscribeFailed(r)
        \/ Moderated(r)
        \/ ModerationFailed(r)
        \/ Unlinked(r)
        \/ UnlinkFailed(r)
        \/ ClientAborted(r)

Spec == Init /\ [][Next]_vars

\* one step of the handler of r after it has started: an await of POST
\* settles, or an event of its download streams is delivered
Continue(r) ==
    \/ VersionFound(r) \/ VersionNotFound(r)
    \/ BinaryDownloaded(r) \/ BinaryDownloadFailed(r)
    \/ DirectoriesReady(r) \/ DirectoriesFailed(r)
    \/ BodyMalformed(r) \/ UrlMissing(r) \/ UrlGiven(r)
    \/ DownloadDirFailed(r) \/ DownloadStarted(r)
    \/ WriteStreamOpened(r) \/ WriteStreamOpenFailed(r)
    \/ StreamData(r) \/ StreamError(r) \/ StreamEnd(r)
    \/ WriteFailed(r) \/ WriteStreamFinish(r)
    \/ CopyDone(r) \/ CopyFailed(r)
    \/ Transcribed(r) \/ TranscribeFailed(r)
    \/ Moderated(r) \/ ModerationFailed(r)
    \/ Unlinked(r) \/ UnlinkFailed(r)

\* the route when every pending await settles and every pending stream
\* event is delivered: the event loop runs the callbacks that are ready, and
\* the file system, yt-dlp and the providers answer or fail in the end
SpecLive == Spec /\ \A r \in Requests : WF_vars(Continue(r))

-----------------------------------------------------------------------------
(* findTimestampsForPhrase applied to every timeline and phrase explored.  *)

InitLocate ==
    /\ InitPipeline
    /\ InitRenderIdle
    /\ \/ phrase \in Phrases /\ words \in Timelines
       \/ phrase \in ScenarioPhrases /\ words = ScenarioTimeline
       \/ phrase \in LongPhrases /\ words \in LongTimelines
    /\ timestamps = Pending

\* const timestamps = findTimestampsForPhrase(part, words)
Locate ==
    /\ timestamps = Pending
    /\ timestamps' = findTimestampsForPhrase(phrase, words)
    /\ UNCHANGED <<phrase, words>>
    /\ UNCHANGED <<pipelineVars, renderVars>>

NextLocate == Locate

SpecLocate == InitLocate /\ [][NextLocate]_vars

\* findTimestampsForPhrase called with the words of a Deepgram response as
\* its type allows them
InitProvider ==
    /\ InitPipeline
    /\ InitRenderIdle
    /\ phrase \in ProviderPhrases
    /\ words \in ProviderTimelines
    /\ timestamps = Pending

SpecProvider == InitProvider /\ [][NextLocate]_vars

NextRender ==
    \/ RenderAnalysis
    \/ RenderTranscript
    \/ SplitTranscript
    \/ RenderSearchPhrase
    \/ RenderPart
    \/ RenderDone

SpecRender == InitRender /\ [][NextRender]_vars

-----------------------------------------------------------------------------
(* Vocabulary of the claims about findTimestampsForPhrase.  In the         *)
(* operators below nw stands for the normalized words of the timeline and  *)
(* pw for the target words of the phrase, both as the code computes them.  *)

Called == timestamps # Pending

\* the match quality the specification attaches to a result
matchQuality(r) ==
    IF ~r.found THEN "none" ELSE IF r.fuzzyMatched THEN "fuzzy" ELSE "exact"

\* a word with case and punctuation ignored
Plain(w) == removePunctuation(toLowerCase(w))

\* the words of a snippet as a reader sees them: the pieces between white
\* space, case and punctuation ignored, pieces that are only punctuation dropped
SnippetWords(p) ==
    IF trim(collapseWhitespace(p)) = <<>> THEN <<>>
    ELSE LET raw == split(trim(collapseWhitespace(p)))
         IN  SelectSeq([k \in 1..Len(raw) |-> Plain(raw[k])], LAMBDA w : w # <<>>)

\* the plain texts pt of the tokens k .. k+Len(sw)-1 (0-based k) read sw
SnippetIsRunAt(k, pt, sw) ==
    /\ Len(sw) >= 1
    /\ k + Len(sw) <= Len(pt)
    /\ \A j \in 1..Len(sw) : sw[j] = pt[k + j]

\* the target words equal the normalized texts of the tokens k .. k+M-1
TargetsEqualRunAt(k, nw, pw) ==
    /\ k + Len(pw) <= Len(nw)
    /\ \A j \in 1..Len(pw) : pw[j] = nw[k + j]

\* window i is accepted by the window-acceptance rule
WindowAccepted(i, nw, pw) ==
    LET m == matchWindow(nw, pw, i, 0, 0, FALSE)
    IN  meetsThreshold(m.matchCount, m.fuzzyMatched, Len(pw))

C2_EmptySnippetNotFound ==
    (Called /\ normalizedPhraseOf(phrase) = <<>>) =>
        /\ ~timestamps.found
        /\ matchQuality(timestamps) = "none"

\* exactly one target word differs from its token of the run at k, by one
\* single-character edit, that word having at least 4 characters
OneTypoAt(k, nw, pw) ==
    /\ k + Len(pw) <= Len(nw)
    /\ \E t \in 1..Len(pw) :
          /\ Len(pw[t]) >= 4
          /\ \A j \in (1..Len(pw)) \ {t} : pw[j] = nw[k + j]
          /\ levenshteinDistance(nw[k + t], pw[t]) = 1

\* C7 as stated: a snippet with one single-character typo is found as a
\* fuzzy match.
C7_TypoIsFuzzyMatch ==
    Called =>
        LET pw == phraseWordsOf(phrase)
            nw == normalizedWordsOf(words)
        IN  \A k \in 0..Len(words) :
                OneTypoAt(k, nw, pw) =>
                    /\ timestamps.found
                    /\ matchQuality(timestamps) = "fuzzy"

\* C7 as amended: such a snippet is found at a window at or before k; the
\* match is fuzzy unless an earlier window equals the snippet word for
\* word, which is then the window returned, as an exact match.
C7_TypoIsFound ==
    Called =>
        LET pw == phraseWordsOf(phrase)
            nw == normalizedWordsOf(words)
        IN  \A k \in 0..Len(words) :
                OneTypoAt(k, nw, pw) =>
                    /\ timestamps.found
                    /\ timestamps.window <= k
                    /\ \/ matchQuality(timestamps) = "fuzzy"
                       \/ /\ timestamps.window < k
                          /\ TargetsEqualRunAt(timestamps.window, nw, pw)

\* C7 witness: the typo window itself is returned, as a fuzzy match of all
\* the words of a two-word phrase
C7_Witness ==
    /\ Called
    /\ timestamps.found
    /\ matchQuality(timestamps) = "fuzzy"
    /\ timestamps.matchCount = 2
    /\ LET pw == phraseWordsOf(phrase)
       IN  /\ Len(pw) = 2
           /\ OneTypoAt(timestamps.window, normalizedWordsOf(words), pw)

\* C8: the window returned is the accepted window of lowest start index,
\* and a window is returned whenever one is accepted.
C8_FirstMatchWins ==
    (Called /\ Len(words) > 0) =>
        LET pw == phraseWordsOf(phrase)
            nw == normalizedWordsOf(words)
        IN  IF timestamps.found
            THEN /\ WindowAccepted(timestamps.window, nw, pw)
                 /\ \A i \in 0..(timestamps.window - 1) : ~WindowAccepted(i, nw, pw)
            ELSE \A i \in 0..(Len(nw) - Len(pw)) : ~WindowAccepted(i, nw, pw)

\* C8 witness: a fuzzy window is returned although a later window matches
\* the phrase exactly
C8_Witness ==
    /\ Called
    /\ timestamps.found
    /\ matchQuality(timestamps) = "fuzzy"
    /\ \E j \in (timestamps.window + 1)..Len(words) :
          TargetsEqualRunAt(j, normalizedWordsOf(words), phraseWordsOf(phrase))

-----------------------------------------------------------------------------
(* Claims about the /api/transcribe route.                                 *)

\* the request has returned its response to the caller
Returned(r) == pc[r] = "done"

\* download and transcription of the request have succeeded
HasTranscript(r) == transcriptText[r] # ""

\* the request is between the readiness check of ensureYtDlpReady and the
\* end of the initialization it started
Initializing(r) == pc[r] \in {"awaitVersion", "awaitBinary"}

\* C3 as stated: a run whose download and transcription succeeded ends with
\* a successful response carrying the transcript, also when the
\* classification call failed.
C3_ClassificationFailureDegrades ==
    \A r \in Requests :
        (Returned(r) /\ HasTranscript(r)) =>
            /\ response[r].status = 200
            /\ response[r].transcription = "channels"

\* C4 as stated, for the runs whose deletion did not fail: when the
\* download promise was rejected, no file is left at the run's temporary
\* path once the response has been returned.
C4_NoTempFileAfterDownloadError ==
    \A r \in Requests :
        (/\ Returned(r)
         /\ promise[r] = "rejected"
         /\ cleanupLog[r] # "Failed to clean up temp file") =>
            tempDir[tempAudioFilePath[r]] = "absent"

C6_InitializationAtMostOnce ==
    Cardinality({r \in Requests : Initializing(r)}) >= 2 =>
        /\ versionProbes <= 1
        /\ binaryDownloads <= 1
        /\ binaryPathSets <= 1

\* the causes of a failure of the download or of the transcription
FatalStageCauses ==
    {"open error", "yt-dlp error", "write error", "copy error",
     "deepgram error"}

\* C10 as stated: a request whose download or transcription failed returns
\* one error response that names the failing stage together with the
\* underlying message, and has produced no transcript.
C10_FatalFailureIsStageTagged ==
    \A r \in Requests :
        (/\ Returned(r)
         /\ response[r].status = 500
         /\ response[r].error.cause \in FatalStageCauses) =>
            /\ response[r].error.prefix # ""
            /\ ~HasTranscript(r)

\* how many times findTimestampsForPhrase was called with the text t
engineCalls(t) == Cardinality({k \in DOMAIN spans : spans[k].text = t})

\* C9 as stated, for sections whose text is quoted verbatim from the
\* transcript: when Home has been rendered there is one entry per section of
\* inappropriate_sections, in the order of the sections, and
\* findTimestampsForPhrase has been called once for each section.
C9_OneAlignmentPerCandidate ==
    (/\ renderPc = "done"
     /\ \A k \in DOMAIN sections : includes(transcript, sections[k].text)) =>
        /\ Len(analysis) = Len(sections)
        /\ \A k \in DOMAIN sections :
              /\ analysis[k] = sections[k].text
              /\ engineCalls(sections[k].text)
                    = Cardinality({m \in DOMAIN sections :
                                       sections[m].text = sections[k].text})

\* the requests whose temporary path is u
OwnersOf(u) == {r \in Requests : tempAudioFilePath[r] = u}

\* C11: two requests never have the same temporary path, and every file of
\* the temporary directory that is created, written or deleted in a step is
\* the temporary file of exactly one request.
C11_NoSharedTempFile ==
    /\ [](\A r, q \in Requests :
            (r # q /\ tempAudioFilePath[r] # NoPath) =>
                tempAudioFilePath[r] # tempAudioFilePath[q])
    /\ [][\A u \in UUIDs :
            tempDir'[u] # tempDir[u] => Cardinality(OwnersOf(u)) = 1]_vars

\* C11 witness: both requests are downloading at the same time and each has
\* written a part of its own temporary file
C11_Witness ==
    \A r \in Requests :
        /\ pc[r] = "awaitDownload"
        /\ tempAudioFilePath[r] # NoPath
        /\ tempDir[tempAudioFilePath[r]] = "partial"

C13_DeletionFailureIsSwallowed ==
    /\ [](\A r \in Requests :
            pc[r] = "awaitUnlink" => response[r] # NoResponse)
    /\ [][\A r \in Requests :
            pc[r] = "awaitUnlink" => response'[r] = response[r]]_vars

\* C13 witness: the deletion failed for both requests; one returns its
\* results and the other the error of its failed stage
C13_Witness ==
    \E r, q \in Requests :
        /\ Returned(r) /\ Returned(q)
        /\ cleanupLog[r] = "Failed to clean up temp file"
        /\ cleanupLog[q] = "Failed to clean up temp file"
        /\ response[r].status = 200
        /\ response[q] = ErrorResponse(Err("", "deepgram error"))

\* C14 as stated: a request that fails because its locator is missing or
\* invalid, or before the locator is read (initialization failure), has
\* created no temporary file: its cleanup has found nothing to delete and
\* no file is at its temporary path.
C14_ResolvingFailureCreatesNoFile ==
    \A r \in Requests :
        (/\ Returned(r)
         /\ response[r].status # 200
         /\ youtubeUrl[r] \in {"", "invalid"}) =>
            /\ cleanupLog[r] = ""
            /\ tempAudioFilePath[r] # NoPath =>
                  tempDir[tempAudioFilePath[r]] = "absent"

-----------------------------------------------------------------------------
(* Further claims about findTimestampsForPhrase.                           *)

QuickBrown == <<"q","u","i","c","k"," ","b","r","o","w","n">>
QuikBrown == <<"q","u","i","k"," ","b","r","o","w","n">>
PurpleElephant ==
    <<"p","u","r","p","l","e"," ","e","l","e","p","h","a","n","t">>

\* the call ended in an exception
Threw(r) == "thrown" \in DOMAIN r

\* C15: a call with a non-empty phrase and an empty words array returns
\* null.
C15_EmptyTimelineNotFound ==
    (Called /\ Len(words) = 0 /\ phrase # << >>) => timestamps = Null

\* C15 witness: the phrase has a word, words is empty, the call returned null
C15_Witness ==
    /\ Called /\ Len(words) = 0
    /\ phraseWordsOf(phrase) # << <<>> >>
    /\ timestamps = Null

\* C16: when no start index i in 0 .. N - M has a window that meets its
\* threshold, the call returns null (quality 'none', no timestamps); on
\* the/quick/brown/fox the phrase "purple elephant" is not found.
C16_NoWindowNotFound ==
    Called =>
        LET pw == phraseWordsOf(phrase)
            nw == normalizedWordsOf(words)
        IN  /\ (\A i \in 0..(Len(nw) - Len(pw)) : ~WindowAccepted(i, nw, pw))
                  => /\ timestamps = Null
                     /\ matchQuality(timestamps) = "none"
            /\ (words = ScenarioTimeline /\ phrase = PurpleElephant)
                  => timestamps = Null

\* C16 witness: "purple elephant" was searched in the/quick/brown/fox, whose
\* three windows all fail, and was not found
C16_Witness ==
    /\ Called
    /\ words = ScenarioTimeline /\ phrase = PurpleElephant
    /\ \A i \in 0..2 : ~WindowAccepted(i, normalizedWordsOf(words),
                                       phraseWordsOf(phrase))
    /\ timestamps = Null

\* C17: on the/quick/brown/fox (times in tenths of a second) "quick brown"
\* is found as an exact match from 0.2 to 0.9, and "quik brown" as a fuzzy
\* match with the same start and end.
C17_QuickBrownScenario ==
    (Called /\ words = ScenarioTimeline) =>
        /\ phrase = QuickBrown =>
              /\ timestamps.found
              /\ timestamps.start = 2 /\ timestamps.end = 9
              /\ matchQuality(timestamps) = "exact"
        /\ phrase = QuikBrown =>
              /\ timestamps.found
              /\ timestamps.start = 2 /\ timestamps.end = 9
              /\ matchQuality(timestamps) = "fuzzy"

\* C17 witness: "quik brown" was searched in the/quick/brown/fox and found
\* at the window of quick and brown by the edit-distance rule
C17_Witness ==
    /\ Called
    /\ words = ScenarioTimeline /\ phrase = QuikBrown
    /\ timestamps.found /\ timestamps.window = 1
    /\ timestamps.fuzzyMatched

\* C18: a result with timestamps has start <= end; start is the start of
\* the token at the window's index i and end the end of the token at
\* i + matchCount - 1, and both indices lie in 0 .. N - 1.
C18_TimestampsAreTokenBounds ==
    (Called /\ timestamps.found) =>
        LET i == timestamps.window
            last == timestamps.window + timestamps.matchCount - 1
        IN  /\ timestamps.start <= timestamps.end
            /\ 0 <= i /\ i <= last /\ last <= Len(words) - 1
            /\ timestamps.start = words[i + 1].start
            /\ timestamps.end = words[last + 1].end

\* C18 witness: a phrase of two words was found at a window that is not the
\* first one
C18_Witness ==
    /\ Called /\ timestamps.found
    /\ timestamps.window >= 1
    /\ timestamps.matchCount = 2
    /\ timestamps.start < timestamps.end

\* C20 as stated: for the tokens a Deepgram response may carry, a token
\* without word text or with an empty one included, the call returns and
\* does not throw.
C20_LocateNeverThrows ==
    Called => ~Threw(timestamps)

\* C19 as stated: when two sections carry the same text, quoted from the
\* transcript, findTimestampsForPhrase has been called once for each of
\* them, and every highlighted span of that text shows the timestamps of
\* the earliest matching window.
C19_DuplicatePhraseInvokedTwice ==
    renderPc = "done" =>
        \A k, m \in DOMAIN sections :
            (/\ k < m
             /\ sections[k].text = sections[m].text
             /\ includes(transcript, sections[k].text)) =>
                /\ engineCalls(sections[k].text) = 2
                /\ \A n \in DOMAIN spans :
                      spans[n].text = sections[k].text =>
                          spans[n].timestamps
                            = findTimestampsForPhrase(sections[k].text, words)

-----------------------------------------------------------------------------
(* Claims settled on the render, the matching rules and the route.         *)

stageOf(r) ==
    CASE pc[r] = "start" -> 0
      [] pc[r] \in {"awaitVersion", "awaitBinary", "awaitDirs", "awaitBody"} -> 1
      [] pc[r] \in {"awaitMkdir", "awaitDownload"} -> 2
      [] pc[r] = "awaitTranscribe" -> 3
      [] pc[r] = "awaitModeration" -> 4
      [] pc[r] \in {"awaitUnlink", "done"} -> 5

\* stageOf in the next state
stageOfNext(r) ==
    CASE pc'[r] = "start" -> 0
      [] pc'[r] \in {"awaitVersion", "awaitBinary", "awaitDirs", "awaitBody"} -> 1
      [] pc'[r] \in {"awaitMkdir", "awaitDownload"} -> 2
      [] pc'[r] = "awaitTranscribe" -> 3
      [] pc'[r] = "awaitModeration" -> 4
      [] pc'[r] \in {"awaitUnlink", "done"} -> 5

\* C22: a request never goes back to an earlier stage and enters a stage
\* only from the one before it (a failure leads to cleanup and return, not
\* to a retry); while it transcribes, its download promise is resolved, the
\* write stream has finished and the temporary file is complete; while it
\* classifies, it has its transcript.
C22_StagesInOrder ==
    /\ [][\A r \in Requests :
            \/ stageOfNext(r) = stageOf(r)
            \/ stageOfNext(r) = stageOf(r) + 1
            \/ stageOfNext(r) = 5]_vars
    /\ [](\A r \in Requests :
            pc[r] = "awaitTranscribe" =>
                /\ promise[r] = "resolved"
                /\ stream[r] = "ended"
                /\ writeStream[r] \in {"finished", "closed"}
                /\ tempDir[tempAudioFilePath[r]] = "complete"
                /\ tempAudioFilePath[r] \in publicDir)
    /\ [](\A r \in Requests :
            pc[r] = "awaitModeration" => HasTranscript(r))

\* C22 witness: one request is classifying after its download and its
\* transcription, the other one failed in its download and has returned
C22_Witness ==
    \E r, q \in Requests :
        /\ pc[r] = "awaitModeration"
        /\ promise[r] = "resolved" /\ HasTranscript(r)
        /\ Returned(q) /\ promise[q] = "rejected"
        /\ response[q].status = 500


-----------------------------------------------------------------------------
(* C23: the window-acceptance rule.                                        *)

\* the rule as the specification words it: all of the M words when every
\* matched word was equal to its token, four fifths of them (5c >= 4M, no
\* rounding) when containment or edit distance was used
RuleAccepts(c, fuzzyUsed, M) ==
    IF fuzzyUsed THEN 5 * c >= 4 * M ELSE c >= M

\* the match count and the fuzzy flag of window i
WindowCount(i) ==
    matchWindow(normalizedWordsOf(words), phraseWordsOf(phrase), i, 0, 0, FALSE)

\* the windows of the call: 0 .. N - M
Windows == 0..(Len(words) - Len(phraseWordsOf(phrase)))

\* C23: a window with match count c over M target words is accepted if and
\* only if c >= M when every matched word matched by equality, or
\* 5c >= 4M when a matched word matched by containment or edit distance:
\* the call returns the first window the rule accepts, with a count the rule
\* accepts, and returns nothing exactly when the rule accepts no window.
C23_WindowAcceptedIffThreshold ==
    (Called /\ Len(phraseWordsOf(phrase)) >= 1) =>
        LET M == Len(phraseWordsOf(phrase))
            ok(i) == RuleAccepts(WindowCount(i).matchCount,
                                 WindowCount(i).fuzzyMatched, M)
        IN  /\ timestamps.found <=> \E i \in Windows : ok(i)
            /\ timestamps.found =>
                /\ timestamps.window \in Windows
                /\ ok(timestamps.window)
                /\ timestamps.matchCount = WindowCount(timestamps.window).matchCount
                /\ timestamps.fuzzyMatched
                       = WindowCount(timestamps.window).fuzzyMatched
                /\ \A i \in Windows : i < timestamps.window => ~ok(i)

\* C23 witness: a window accepted at exactly four fifths (5c = 4M) with a
\* fuzzy word, after an earlier window that also used a fuzzy rule and was
\* rejected with one word less
C23_Witness ==
    /\ Called
    /\ timestamps.found
    /\ timestamps.fuzzyMatched
    /\ 5 * timestamps.matchCount = 4 * Len(phraseWordsOf(phrase))
    /\ timestamps.window >= 1
    /\ \E i \in Windows :
          /\ i < timestamps.window
          /\ WindowCount(i).fuzzyMatched
          /\ WindowCount(i).matchCount = timestamps.matchCount - 1


-----------------------------------------------------------------------------
(* C24: the per-word rule and the end of a window's scan.                  *)

\* b occurs in a as a run of consecutive characters
Contains(a, b) ==
    \E k \in 0..(Len(a) - Len(b)) : \A j \in 1..Len(b) : a[k + j] = b[j]

\* a can be turned into b with at most k insertions, deletions and
\* substitutions of one character
RECURSIVE WithinEdits(_, _, _)
WithinEdits(a, b, k) ==
    IF k < 0 THEN FALSE
    ELSE IF Len(a) = 0 THEN Len(b) <= k
    ELSE IF Len(b) = 0 THEN Len(a) <= k
    ELSE IF Head(a) = Head(b) THEN WithinEdits(Tail(a), Tail(b), k)
    ELSE \/ WithinEdits(Tail(a), b, k - 1)
         \/ WithinEdits(a, Tail(b), k - 1)
         \/ WithinEdits(Tail(a), Tail(b), k - 1)

\* the per-word rule as the specification words it
WordsMatch(token, target) ==
    \/ token = target
    \/ Contains(token, target)
    \/ Contains(target, token)
    \/ WithinEdits(token, target, Min2(2, Len(target) \div 3))

\* target word j (0-based) matches its token in window i
MatchesAt(i, j) ==
    WordsMatch(normalizedWordsOf(words)[i + j + 1], phraseWordsOf(phrase)[j + 1])

\* C24: a target word matches a token iff their normalized forms are equal,
\* one contains the other, or their Levenshtein distance is at most
\* min(2, floor(len(target)/3)); the first target word of a window that
\* matches by none of these ends the scan of the window: the count of every
\* window is the number of words before the first non-match, and the fuzzy
\* flag says that one of those words was not equal to its token.
C24_PerWordRuleAndShortCircuit ==
    (Called /\ Len(phraseWordsOf(phrase)) >= 1) =>
        LET M  == Len(phraseWordsOf(phrase))
            nw == normalizedWordsOf(words)
            pw == phraseWordsOf(phrase)
        IN  \A i \in Windows :
                LET c == WindowCount(i).matchCount
                IN  /\ c \in 0..M
                    /\ \A j \in 0..(c - 1) : MatchesAt(i, j)
                    /\ c < M => ~MatchesAt(i, c)
                    /\ WindowCount(i).fuzzyMatched
                           <=> \E j \in 0..(c - 1) : nw[i + j + 1] # pw[j + 1]
                    /\ \A j \in 0..(M - 1) :
                           (wordMatch(nw[i + j + 1], pw[j + 1]) # "none")
                               <=> MatchesAt(i, j)

\* C24 witness: a window whose scan ended at a word that matches nothing
\* although the next word of the window matches its token, after a word
\* counted by edit distance alone
C24_Witness ==
    /\ Called
    /\ \E i \in Windows :
          LET c  == WindowCount(i).matchCount
              nw == normalizedWordsOf(words)
              pw == phraseWordsOf(phrase)
          IN  /\ c >= 1
              /\ c + 1 < Len(pw)
              /\ ~MatchesAt(i, c)
              /\ MatchesAt(i, c + 1)
              /\ \E j \in 0..(c - 1) :
                    /\ nw[i + j + 1] # pw[j + 1]
                    /\ ~Contains(nw[i + j + 1], pw[j + 1])
                    /\ ~Contains(pw[j + 1], nw[i + j + 1])


-----------------------------------------------------------------------------
(* C25: the timestamps of an accepted window.                              *)

\* C25: for an accepted window starting at index i with match count c, the
\* start returned is the start of token i and the end returned is the end of
\* token i + c - 1, the last matched token; when the window was accepted
\* with c < M that end is earlier than the end of the window's last token
\* i + M - 1.
C25_SpanEndsAtLastMatchedToken ==
    (Called /\ timestamps.found) =>
        LET i == timestamps.window
            c == WindowCount(i).matchCount
            M == Len(phraseWordsOf(phrase))
        IN  /\ c >= 1
            /\ i + M <= Len(words)
            /\ timestamps.start = words[i + 1].start
            /\ timestamps.end = words[i + c].end
            /\ c < M => timestamps.end < words[i + M].end

\* C25 witness: the second window of a timeline accepted with one word
\* less than the phrase has
C25_Witness ==
    /\ Called
    /\ timestamps.found
    /\ timestamps.window = 1
    /\ WindowCount(1).matchCount = Len(phraseWordsOf(phrase)) - 1
    /\ timestamps.end = words[Len(phraseWordsOf(phrase))].end


-----------------------------------------------------------------------------
(* C26: normalization of the snippet and of the tokens.                    *)

\* C26 as stated: normalization treats the snippet and the token text
\* alike, so a snippet that is one word with the same raw text as a token
\* (for example a word with an inner apostrophe) yields one target word,
\* equal to the normalized text of that token, and is found.
C26_SnippetAndTokenNormalizeAlike ==
    Called =>
        \A k \in DOMAIN words :
            (words[k].word = phrase /\ normalizedOf(words[k]) # <<>>) =>
                /\ phraseWordsOf(phrase) = <<normalizedOf(words[k])>>
                /\ timestamps.found


-----------------------------------------------------------------------------
(* C27: partial acceptance.                                                *)

\* C27: in every window the matched words are the words at positions
\* 0 .. c-1; a window accepted with fewer than M matched words exists only
\* when M >= 5 and a fuzzy rule was used; for a snippet of at most 4 target
\* words a result that was found means that all M words matched their
\* tokens.
C27_PartialAcceptanceNeedsFiveWords ==
    (Called /\ Len(phraseWordsOf(phrase)) >= 1) =>
        LET M  == Len(phraseWordsOf(phrase))
            nw == normalizedWordsOf(words)
            pw == phraseWordsOf(phrase)
        IN  /\ \A i \in Windows :
                  LET c == WindowCount(i).matchCount
                  IN  /\ \A j \in 0..(c - 1) : MatchesAt(i, j)
                      /\ (WindowAccepted(i, nw, pw) /\ c < M) =>
                             (M >= 5 /\ WindowCount(i).fuzzyMatched)
            /\ (timestamps.found /\ timestamps.matchCount < M) =>
                   (M >= 5 /\ timestamps.fuzzyMatched)
            /\ (timestamps.found /\ M <= 4) =>
                   /\ timestamps.matchCount = M
                   /\ \A j \in 0..(M - 1) : MatchesAt(timestamps.window, j)

\* C27 witness: a snippet of five target words found with four of them
\* matched, and the fifth matching nothing
C27_Witness ==
    /\ Called
    /\ Len(phraseWordsOf(phrase)) = 5
    /\ timestamps.found
    /\ timestamps.matchCount = 4
    /\ timestamps.fuzzyMatched
    /\ ~MatchesAt(timestamps.window, 4)


-----------------------------------------------------------------------------
(* C28: the temporary file after cleanup.                                  *)

\* C28 as stated: once the cleanup of a run has completed, no later event
\* of that run creates or writes a file at the run's temporary path: from
\* then on every step leaves the file at that path as it is.
C28_NoFileEventAfterCleanup ==
    [][\A r \in Requests :
          (Returned(r) /\ cleanupCalled[r]) =>
              tempDir'[tempAudioFilePath[r]] = tempDir[tempAudioFilePath[r]]]_vars


-----------------------------------------------------------------------------
(* C29: the readiness flag.                                                *)

\* the response of a request whose initialization failed
InitializationFailure ==
    ErrorResponse(Err("Failed to initialize video downloader component.", ""))

\* request r calls ensureYtDlpReady in this step
CallsEnsureReady(r) == pc[r] = "start" /\ pc'[r] # "start"

\* C29: the readiness flag is set to true only by a request whose version
\* probe or binary download has just succeeded, and is never reset to false;
\* a call of ensureYtDlpReady that finds it true returns without a probe or
\* a download; a failed initialization leaves the flag as it is and throws,
\* and a call that finds the flag false attempts initialization again.
C29_ReadinessFlagMonotonic ==
    /\ [][isYtDlpGlobalReady => isYtDlpGlobalReady']_vars
    /\ [][(~isYtDlpGlobalReady /\ isYtDlpGlobalReady') =>
              \E r \in Requests :
                  /\ pc[r] \in {"awaitVersion", "awaitBinary"}
                  /\ pc'[r] = "awaitDirs"]_vars
    /\ [][\A r \in Requests :
              (CallsEnsureReady(r) /\ isYtDlpGlobalReady) =>
                  /\ pc'[r] = "awaitDirs"
                  /\ versionProbes' = versionProbes
                  /\ binaryDownloads' = binaryDownloads
                  /\ binaryPathSets' = binaryPathSets]_vars
    /\ [][\A r \in Requests :
              (pc[r] = "awaitBinary" /\ pc'[r] \notin {"awaitBinary", "awaitDirs"}) =>
                  /\ isYtDlpGlobalReady' = isYtDlpGlobalReady
                  /\ response'[r] = InitializationFailure
                  /\ pc'[r] = "done"]_vars
    /\ [][\A r \in Requests :
              (CallsEnsureReady(r) /\ ~isYtDlpGlobalReady) =>
                  /\ pc'[r] = "awaitVersion"
                  /\ versionProbes' = versionProbes + 1]_vars

\* C29 witness: the initialization of one request has failed, the flag is
\* still false, and the next request is probing for the version again
C29_Witness ==
    \E r, q \in Requests :
        /\ r # q
        /\ Returned(r)
        /\ response[r] = InitializationFailure
        /\ ~isYtDlpGlobalReady
        /\ pc[q] = "awaitVersion"
        /\ versionProbes = 2
        /\ binaryDownloads = 1


-----------------------------------------------------------------------------
(* C30: termination.                                                       *)

\* the promise of downloadYouTubeAudio has been resolved or rejected
Settled(r) == promise[r] \in {"resolved", "rejected"}

\* C30: provided every pending call and stream of a request eventually
\* completes or reports an error, every request that was started eventually
\* returns; it returns exactly one response, which nothing replaces later,
\* and the promise of its download, once resolved or rejected, is never
\* settled again and is settled when the request returns after a download.
C30_EveryRunTerminatesOnce ==
    /\ \A r \in Requests : (pc[r] # "start") ~> Returned(r)
    /\ [](\A r \in Requests :
              Returned(r) =>
                  /\ response[r] # NoResponse
                  /\ promise[r] # "pending")
    /\ [][\A r \in Requests :
              response[r] # NoResponse => response'[r] = response[r]]_vars
    /\ [][\A r \in Requests :
              Settled(r) => promise'[r] = promise[r]]_vars

\* C30 witness: the download stream of a request and its write stream have
\* both reported an error; the request has returned the failure of the
\* download, the first of the two
C30_Witness ==
    \E r \in Requests :
        /\ Returned(r)
        /\ stream[r] = "errored"
        /\ writeStream[r] = "errored"
        /\ promise[r] = "rejected"
        /\ response[r] = ErrorResponse(Err("Download failed", "yt-dlp error"))

=============================================================================
